---------------------------- MODULE Spec2Model ----------------------------
(***************************************************************************)
(* Model of the explicit Runge-Kutta engine of src/rk.py (class RK).       *)
(*                                                                         *)
(* Numbers.  Instants and state components are Python floats.  They are    *)
(* modelled on the grid  n + e * 2^-35  (record [n, e], n and e integers). *)
(* Below 2^18 every number of the grid is a double and every float         *)
(* addition and product by an integer of the program is exact; from 2^18   *)
(* on a double has fewer places than the grid and the operations round to  *)
(* the nearest double, ties to even (Arred).  2^-35 is about 2.9e-11,      *)
(* below the 1e-10 quantum of round(tk, 10), so the rounding of the loop   *)
(* test is observable.                                                     *)
(* The step h, the tableau (a, b, c) and the coefficients of the           *)
(* derivative functions are integers.                                      *)
(*                                                                         *)
(* Python lists are 1-based sequences here: a[r][s] is a[r+1][s+1].        *)
(***************************************************************************)
EXTENDS Integers, Sequences, FiniteSets

(***************************************************************************)
(* Bounds of the exploration.                                              *)
(***************************************************************************)
MaxPassos == 4      \* loop iterations explored in one call of aplicar
MaxChamadas == 2    \* calls of aplicar on one instance
MaxT == 3           \* largest integer part of the requested final instant

(***************************************************************************)
(* Numbers n + e * 2^-35, and the doubles among them.                      *)
(***************************************************************************)
Num(n, e) == [n |-> n, e |-> e]

Inteiro(k) == Num(k, 0)

\* floor(log2 k), 1 <= k < 2^30
Log2(k) == IF k <= 1 THEN 0 ELSE CHOOSE j \in 1..29 : 2^j <= k /\ k < 2^(j + 1)

Abs(k) == IF k < 0 THEN -k ELSE k

\* binary exponent of x = n + e * 2^-35, n # 0: floor(log2 |x|)
Expoente(x) ==
    LET j == Log2(Abs(x.n))
    IN  IF Abs(x.n) = 2^j /\ ((x.n > 0 /\ x.e < 0) \/ (x.n < 0 /\ x.e > 0))
        THEN j - 1 ELSE j

\* The double nearest to x, ties to even (the rounding of every float
\* operation).  A double of exponent k has its last place at 2^(k-52):
\* below 2^18 every number of the grid is a double; from 2^18 on e has to
\* be a multiple of 2^(k-17).
Arredondado(x) ==
    LET expo == Expoente(x) IN
    IF expo < 18 THEN x
    ELSE LET passo == 2^(expo - 17)
             baixo == (x.e \div passo) * passo
             resto == x.e - baixo
         IN  IF 2 * resto < passo THEN Num(x.n, baixo)
             ELSE IF 2 * resto > passo THEN Num(x.n, baixo + passo)
             ELSE IF (baixo \div passo) % 2 = 0 THEN Num(x.n, baixo)
             ELSE Num(x.n, baixo + passo)

\* the same, with the operand evaluated once
Arred(x) == CHOOSE r \in {Arredondado(v) : v \in {x}} : TRUE

EhDuplo(x) == Arred(x) = x

\* the real x + y of two doubles of the grid
SomaExata(x, y) == Num(x.n + y.n, x.e + y.e)

\* x + y of two floats
Soma(x, y) == Arred(SomaExata(x, y))

\* k * x, k an integer coefficient and x a float
Vezes(k, x) == Arred(Num(k * x.n, k * x.e))

\* x - y of two floats
Menos(x, y) == Arred(Num(x.n - y.n, x.e - y.e))

\* x >= y and x > y for floats of the grid (|e| is far below 2^35)
MaiorIgual(x, y) == \/ x.n > y.n
                    \/ x.n = y.n /\ x.e >= y.e

Maior(x, y) == \/ x.n > y.n
               \/ x.n = y.n /\ x.e > y.e

\* sum(...) of a Python generator over the indices lo..hi of a function
RECURSIVE SomaDe(_, _, _)
SomaDe(termo, lo, hi) ==
    IF hi < lo THEN Inteiro(0)
    ELSE Soma(SomaDe(termo, lo, hi - 1), termo[hi])

RECURSIVE SomaInt(_, _)
SomaInt(s, k) == IF k = 0 THEN 0 ELSE SomaInt(s, k - 1) + s[k]

(***************************************************************************)
(* round(x, casas) of the interpreter: first the decimal with `casas`      *)
(* places nearest to x, ties to even, then the double nearest to that      *)
(* decimal.  The decimal is n + q * 10^-casas, where                       *)
(* x.e * 2^-35 = x.e * 5^casas / 2^(35 - casas) units of 10^-casas.  The   *)
(* double returned is in general not on the grid (its last place is finer  *)
(* than 2^-35 below 2^17), so it is kept as [n, q, casas], standing for    *)
(* the double nearest to n + q * 10^-casas; DuploMaiorIgual compares it as *)
(* that double.                                                            *)
(***************************************************************************)
round(x, casas) ==
    LET num == x.e * 5^casas
        den == 2^(35 - casas)
        cima == (2 * num + den) \div (2 * den)
        empate == (2 * num + den) % (2 * den) = 0
    IN  [n |-> x.n,
         q |-> IF empate /\ cima % 2 # 0 THEN cima - 1 ELSE cima,
         casas |-> casas]

\* How far below the double x a real may lie and still have x as its
\* nearest double: less than half the gap between x and the double before
\* it, 2^(k-53) for exponent k (2^(k-54) when x is a power of two), in
\* units of 2^-35 * 5^-casas.  The largest such distance; no real met here
\* lies exactly half way (5^casas would have to divide q).
MeioUlp(x, casas) ==
    IF x.n = 0 THEN 0
    ELSE LET k0 == Expoente(x)
             k == IF x.n > 0 /\ x.e = 0 /\ x.n = 2^k0 THEN k0 - 1 ELSE k0
         IN  IF k >= 18 THEN 5^casas * 2^(k - 18) - 1
             ELSE IF 18 - k > 24 THEN 0
             ELSE (5^casas - 1) \div 2^(18 - k)

\* d >= x as the code compares them, double with double: d the double
\* returned by round, x a double of the grid
DuploMaiorIgual(d, x) ==
    \/ d.n > x.n
    \/ /\ d.n = x.n
       /\ x.e * 5^(d.casas) - d.q * 2^(35 - d.casas) <= MeioUlp(x, d.casas)

(***************************************************************************)
(* Derivative functions supplied by the caller: the affine functions       *)
(*   lambda t, *y: k0 + kt*t + sum(ky[j]*y[j] for j in range(len(ky)))     *)
(* [k0, kt, ky] with integer coefficients.                                 *)
(***************************************************************************)
Funcao(k0, kt, ky) == [k0 |-> k0, kt |-> kt, ky |-> ky]

\* the call f(instante, *termos_y) raises IndexError when ky is longer
\* than the state it receives
AvaliaOk(f, ys) == Len(f.ky) <= Len(ys)

Avalia(f, t, ys) ==
    Soma(Soma(Inteiro(f.k0), Vezes(f.kt, t)),
         SomaDe([j \in 1..Len(f.ky) |-> Vezes(f.ky[j], ys[j])], 1, Len(f.ky)))

(***************************************************************************)
(* RK.__init__ : the instance built from (f, t0, y0, h, R, a, b).          *)
(***************************************************************************)
RK(f, t0, y0, h, R, a, b) ==
    [R |-> R, n |-> Len(f), f |-> f, t0 |-> t0, y0 |-> y0, h |-> h,
     a |-> a, b |-> b,
     c |-> [r \in 1..Len(a) |-> SomaInt(a[r], Len(a[r]))]]

qntdCasasArredondamento == 10

(***************************************************************************)
(* RK.kappa : stage r (0-based) of one application of the method.          *)
(***************************************************************************)
\* variant: every stage below r, range(r)
EstagiosTodos(r) == 0..(r - 1)

\* the stages summed into the shifted state of stage r: range(r-1)
Estagios(r) == 0..(r - 2)

RECURSIVE kappa(_, _, _, _, _)
\* sum ( self.a[r][s] * self.kappa(f, t, y, s) for s in range(r-1) )
somaEstagios(self, f, t, y, r) ==
    LET ss == Estagios(r)
        termo == [k \in 1..Cardinality(ss) |->
                    Vezes(self.a[r + 1][k], kappa(self, f, t, y, k - 1))]
    IN  SomaDe(termo, 1, Cardinality(ss))

termos_y(self, f, t, y, r) ==
    [i \in 1..self.n |-> Soma(y[i], Vezes(self.h, somaEstagios(self, f, t, y, r)))]

instante(self, t, r) == Soma(t, Inteiro(self.h * self.c[r + 1]))

kappa(self, f, t, y, r) ==
    Avalia(f, instante(self, t, r), termos_y(self, f, t, y, r))

\* kappa raises (IndexError) instead of returning
RECURSIVE kappaOk(_, _, _, _, _)
kappaOk(self, f, t, y, r) ==
    /\ r + 1 <= Len(self.c)
    /\ self.n > 0 =>
         /\ self.n <= Len(y)
         /\ \A s \in Estagios(r) :
               /\ r + 1 <= Len(self.a)
               /\ s + 1 <= Len(self.a[r + 1])
               /\ kappaOk(self, f, t, y, s)
    /\ AvaliaOk(f, [i \in 1..self.n |-> 0])

(***************************************************************************)
(* RK.phi : weighted mean, by b, of the stages.                            *)
(***************************************************************************)
phi(self, f, t, y) ==
    SomaDe([k \in 1..self.R |-> Vezes(self.b[k], kappa(self, f, t, y, k - 1))],
           1, self.R)

phiOk(self, f, t, y) ==
    \A r \in 0..(self.R - 1) : r + 1 <= Len(self.b) /\ kappaOk(self, f, t, y, r)

(***************************************************************************)
(* RK.yk1 : step k + 1 from step k.                                        *)
(***************************************************************************)
yk1Ok(self, tk, yk) ==
    \A i \in 1..self.n : i <= Len(yk) /\ phiOk(self, self.f[i], tk, yk)

\* variant: the instant is advanced to the instant of the last stage
yk1UltimoEstagio(self, tk, yk) ==
    [t |-> instante(self, tk, self.R - 1),
     y |-> [i \in 1..self.n |->
              Soma(yk[i], Vezes(self.h, phi(self, self.f[i], tk, yk)))]]

\* variant: yk is updated in place, component after component
RECURSIVE emLugar(_, _, _, _)
emLugar(self, tk, y, i) ==
    IF i > self.n THEN y
    ELSE emLugar(self, tk,
                 [y EXCEPT ![i] = Soma(y[i], Vezes(self.h, phi(self, self.f[i], tk, y)))],
                 i + 1)

yk1EmLugar(self, tk, yk) ==
    [t |-> Soma(tk, Inteiro(self.h)),
     y |-> SubSeq(emLugar(self, tk, yk, 1), 1, self.n)]

yk1(self, tk, yk) ==
    [t |-> Soma(tk, Inteiro(self.h)),
     y |-> [i \in 1..self.n |->
              Soma(yk[i], Vezes(self.h, phi(self, self.f[i], tk, yk)))]]

(***************************************************************************)
(* RK.aplicar : the pieces of the driving loop.                            *)
(***************************************************************************)
\* a record of the trajectory: [tk, *yk]
ponto(t, y) == <<t>> \o y

\* variant: the new record is put in front of the trajectory
salvaNaFrente(ps, t, y) == <<ponto(t, y)>> \o ps

\* pontos += [[tk, *yk]]
salva(ps, t, y) == Append(ps, ponto(t, y))

\* variant: the instant is compared without being rounded
pararSemArredondar(t, final) == MaiorIgual(t, final)

\* if round(tk, self.qntdCasasArredondamento) >= tf: break
parar(t, final) ==
    DuploMaiorIgual(round(t, qntdCasasArredondamento), final)

(***************************************************************************)
(* Inputs: systems (f, y0) and tableaus (R, a, b), well formed or not.     *)
(* They are arguments a caller can pass to RK, chosen on the grid; the     *)
(* gravitational systems and the fractional tableau of the example         *)
(* scripts (sqrt, division, 2/3) are not among them.                       *)
(***************************************************************************)
Sistema(f, y0) == [f |-> f, y0 |-> y0]

Tableau(R, a, b) == [R |-> R, a |-> a, b |-> b]

fY == Funcao(0, 0, <<1>>)           \* lambda t, *y: y[0]
fT == Funcao(0, 1, <<>>)            \* lambda t, *y: t
fUm == Funcao(1, 0, <<>>)           \* lambda t, *y: 1
fY2 == Funcao(0, 0, <<0, 1>>)       \* lambda t, *y: y[1]
fMenosY1 == Funcao(0, 1, <<-1>>)    \* lambda t, *y: t - y[0]

SistemasBem ==
    { Sistema(<<fY>>, <<Inteiro(1)>>),
      Sistema(<<fT>>, <<Inteiro(0)>>),
      Sistema(<<fY2, fMenosY1>>, <<Inteiro(1), Inteiro(0)>>) }

SistemasMal ==
    { Sistema(<<fY, fUm>>, <<Inteiro(1)>>),               \* len(f) > len(y0)
      Sistema(<<fY>>, <<Inteiro(1), Inteiro(2)>>),        \* len(f) < len(y0)
      Sistema(<<fY2>>, <<Inteiro(1), Inteiro(2)>>) }      \* idem, f reads y[1]

TableausBem ==
    { Tableau(1, <<<<0>>>>, <<1>>),
      Tableau(2, <<<<0, 0>>, <<2, 0>>>>, <<1, 3>>),
      Tableau(3, <<<<0, 0, 0>>, <<1, 0, 0>>, <<1, 1, 0>>>>, <<1, 0, 1>>),
      Tableau(4, <<<<0, 0, 0, 0>>, <<1, 0, 0, 0>>, <<0, 1, 0, 0>>, <<0, 1, 1, 0>>>>,
              <<1, 0, 0, 1>>) }

TableausMal ==
    { Tableau(2, <<<<0, 0>>, <<1, 0>>>>, <<1>>),           \* len(b) < R
      Tableau(1, <<<<0>>>>, <<1, 1>>),                     \* len(b) > R
      Tableau(2, <<<<0, 1>>, <<1, 0>>>>, <<0, 1>>),        \* a[0][1] # 0
      Tableau(2, <<<<0, 0>>>>, <<1, 1>>),                  \* a has one row
      Tableau(3, <<<<0>>, <<1>>, <<1>>>>, <<1, 0, 1>>),    \* rows of length 1
      Tableau(3, <<<<>>, <<>>, <<>>>>, <<1, 0, 1>>) }      \* empty rows

\* the configuration is one that construction is specified to reject
Malformada(self) ==
    \/ Len(self.b) # self.R
    \/ Len(self.a) # self.R
    \/ \E r \in 1..Len(self.a) : Len(self.a[r]) # self.R
    \/ \E r \in 1..Len(self.a) : \E s \in 1..Len(self.a[r]) :
           s >= r /\ self.a[r][s] # 0
    \/ Len(self.f) # Len(self.y0)

EpsT0 == {-1, 0, 1, 5}
EpsTf == {-1, 0, 1, 4, 5}
EpsGrande == {0, 7, 54, 55, 56}
NGrande == {8191, 131071, 262143}

(***************************************************************************)
(* State: the instance, the argument of the call in progress, the locals   *)
(* of aplicar, and the trajectories already returned to the caller.        *)
(***************************************************************************)
VARIABLES rk, tf, pc, pontos, tk, yk, retornos

vars == <<rk, tf, pc, pontos, tk, yk, retornos>>

InitCom(ss, ts, t0s, hs, tfs) ==
    /\ \E s \in ss, tb \in ts, t0 \in {x \in t0s : EhDuplo(x)}, h \in hs :
          rk = RK(s.f, t0, s.y0, h, tb.R, tb.a, tb.b)
    /\ tf \in {x \in tfs : EhDuplo(x)}
    /\ pc = "pronto"
    /\ pontos = <<>>
    /\ tk = Inteiro(0)
    /\ yk = <<>>
    /\ retornos = <<>>

\* every instant close to the 1e-10 quantum, simple systems
InitTempo ==
    InitCom({s \in SistemasBem : Len(s.f) = 1},
            {tb \in TableausBem : tb.R <= 2},
            {Num(n, e) : n \in 0..1, e \in EpsT0},
            -1..2,
            {Num(n, e) : n \in 0..MaxT, e \in EpsTf})

\* every system and tableau, few instants
InitMetodo ==
    InitCom(SistemasBem \cup SistemasMal,
            TableausBem \cup TableausMal,
            {Inteiro(0), Num(0, 1)},
            {1, 2},
            {Inteiro(2), Inteiro(MaxT)})

\* instants from 2^13 on, where the double returned by round can be an
\* instant of the grid that the decimal is not, and around 2^18, where the
\* float operations round
InitGrande ==
    InitCom({s \in SistemasBem : Len(s.f) = 1},
            {tb \in TableausBem : tb.R = 1},
            {Num(n, e) : n \in NGrande, e \in EpsGrande},
            {1},
            {Num(n + k, e) : n \in NGrande, k \in 1..2, e \in EpsGrande})

Init == InitTempo \/ InitMetodo \/ InitGrande

\* pontos = [[self.t0, *self.y0]]; tk = self.t0; yk = self.y0
Aplicar ==
    /\ pc \in {"pronto", "retornou"}
    /\ Len(retornos) < MaxChamadas
    /\ pontos' = <<ponto(rk.t0, rk.y0)>>
    /\ tk' = rk.t0
    /\ yk' = rk.y0
    /\ pc' = "laco"
    /\ UNCHANGED <<rk, tf, retornos>>

\* variant: the iteration keeps the current instant in the instance
PassoGuardaInstante ==
    /\ pc = "laco"
    /\ Len(pontos) <= MaxPassos
    /\ IF ~yk1Ok(rk, tk, yk)
       THEN /\ pc' = "erro"
            /\ UNCHANGED <<rk, tf, pontos, tk, yk, retornos>>
       ELSE LET novo == yk1(rk, tk, yk) IN
            /\ tk' = novo.t
            /\ yk' = novo.y
            /\ pontos' = salva(pontos, novo.t, novo.y)
            /\ IF parar(novo.t, tf)
               THEN pc' = "retornou" /\ retornos' = Append(retornos, pontos')
               ELSE pc' = "laco" /\ UNCHANGED retornos
            /\ rk' = [rk EXCEPT !.t0 = novo.t]
            /\ UNCHANGED tf

\* one iteration of `while True`: calcula, salva, test of the break
Passo ==
    /\ pc = "laco"
    /\ Len(pontos) <= MaxPassos
    /\ IF ~yk1Ok(rk, tk, yk)
       THEN /\ pc' = "erro"
            /\ UNCHANGED <<rk, tf, pontos, tk, yk, retornos>>
       ELSE LET novo == yk1(rk, tk, yk) IN
            /\ tk' = novo.t
            /\ yk' = novo.y
            /\ pontos' = salva(pontos, novo.t, novo.y)
            /\ IF parar(novo.t, tf)
               THEN pc' = "retornou" /\ retornos' = Append(retornos, pontos')
               ELSE pc' = "laco" /\ UNCHANGED retornos
            /\ UNCHANGED <<rk, tf>>

Next == Aplicar \/ Passo

Spec == Init /\ [][Next]_vars

(***************************************************************************)
(* Helpers of the properties.                                              *)
(***************************************************************************)
\* instant of record k of a trajectory (1-based), and its state
inst(ps, k) == ps[k][1]

estado(ps, k) == Tail(ps[k])

\* x rounded to the places of the loop test is not before y
ArredondadoAlcanca(x, y) ==
    DuploMaiorIgual(round(x, qntdCasasArredondamento), y)

\* x <= y + 0.5e-10 (half the quantum of the test), and x >= y - 0.5e-10
\* less the half last place of the double y
AteMeiaCasaAcima(x, y) ==
    \/ x.n < y.n
    \/ x.n = y.n /\ 2 * (x.e - y.e) * 5^10 <= 2^25

AteMeiaCasaAbaixo(x, y) ==
    \/ x.n > y.n
    \/ x.n = y.n /\ (y.e - x.e) * 5^10 <= 2^24 + MeioUlp(y, 10)

\* aplicar was called with the arguments the contract asks for
ChamadaValida == rk.h > 0 /\ Maior(tf, rk.t0)

\* the state shifted by the stages 0..m-1 of row r, written out
Deslocado(self, f, t, y, r, m) ==
    [j \in 1..self.n |->
        Soma(y[j],
             Vezes(self.h,
                   SomaDe([k \in 1..m |->
                             Vezes(self.a[r + 1][k], kappa(self, f, t, y, k - 1))],
                          1, m)))]

\* the step of the method taken from record k of a trajectory
PassoDe(self, ps, k) ==
    ponto(Soma(inst(ps, k), Inteiro(self.h)),
          [i \in 1..self.n |->
             Soma(estado(ps, k)[i],
                  Vezes(self.h, phi(self, self.f[i], inst(ps, k), estado(ps, k))))])

(***************************************************************************)
(* C1.  As claimed: when aplicar returns from a valid call, the last       *)
(* instant is not before tf, exceeds it by at most h, and every earlier    *)
(* instant is strictly below tf.                                           *)
(***************************************************************************)
C1_Original ==
    (pc = "retornou" /\ ChamadaValida) =>
        LET N == Len(pontos) IN
        /\ MaiorIgual(inst(pontos, N), tf)
        /\ MaiorIgual(Soma(tf, Inteiro(rk.h)), inst(pontos, N))
        /\ \A k \in 1..(N - 1) : Maior(tf, inst(pontos, k))

(***************************************************************************)
(* C1, amended.  When aplicar returns from a valid call, the last record   *)
(* is the first one after record 0 whose instant rounded to 10 places is   *)
(* not before tf: it lies at most 0.5e-10 (and half a last place of tf)    *)
(* below tf and at most h + 0.5e-10 above it, and every earlier instant    *)
(* is below tf + 0.5e-10.                                                  *)
(***************************************************************************)
C1_Termino ==
    (pc = "retornou" /\ ChamadaValida) =>
        LET N == Len(pontos) IN
        /\ N >= 2
        /\ ArredondadoAlcanca(inst(pontos, N), tf)
        /\ \A k \in 2..(N - 1) : ~ArredondadoAlcanca(inst(pontos, k), tf)
        /\ AteMeiaCasaAbaixo(inst(pontos, N), tf)
        /\ AteMeiaCasaAcima(inst(pontos, N), Soma(tf, Inteiro(rk.h)))
        /\ \A k \in 1..(N - 1) : AteMeiaCasaAcima(inst(pontos, k), tf)

\* a valid call returned with its last instant strictly before tf
C1_Witness ==
    /\ pc = "retornou" /\ ChamadaValida
    /\ Maior(tf, inst(pontos, Len(pontos)))
    /\ Len(pontos) >= 3

(***************************************************************************)
(* C2.  As claimed: in every stage r the shifted state is                  *)
(* y[i] + h * (sum over all stages s < r of a[r][s] * kappa(f, t, y, s)).  *)
(***************************************************************************)
C2_TodosEstagios ==
    (pc = "laco" /\ ~Malformada(rk)) =>
        \A i \in 1..rk.n : \A r \in 0..(rk.R - 1) :
            termos_y(rk, rk.f[i], tk, yk, r) = Deslocado(rk, rk.f[i], tk, yk, r, r)

(***************************************************************************)
(* C3.  As claimed: a call with h <= 0 or tf <= t0 is rejected: it takes   *)
(* no integration step and returns no trajectory.                          *)
(***************************************************************************)
C3_ChamadaRejeitada ==
    ~ChamadaValida => Len(pontos) <= 1 /\ retornos = <<>>

(***************************************************************************)
(* C4.  As claimed: a malformed configuration is rejected at               *)
(* construction, so it never reaches a step of aplicar and never raises    *)
(* in the middle of a run.                                                 *)
(***************************************************************************)
C4_ConstrucaoRejeitada ==
    Malformada(rk) => Len(pontos) <= 1 /\ pc # "erro"

(***************************************************************************)
(* C5.  As claimed: when h > 0 and tf = t0 + N*h, aplicar returns exactly  *)
(* the N + 1 records at t0, t0 + h, ..., tf.                               *)
(***************************************************************************)
C5_NMaisUm ==
    \A N \in 1..MaxPassos :
        (rk.h > 0 /\ tf = Soma(rk.t0, Inteiro(N * rk.h)) /\ pontos # <<>>) =>
            /\ Len(pontos) <= N + 1
            /\ \A k \in 1..Len(pontos) :
                  inst(pontos, k) = Soma(rk.t0, Inteiro((k - 1) * rk.h))
            /\ pc = "retornou" => Len(pontos) = N + 1

(***************************************************************************)
(* C6, as claimed.  Consecutive records of the trajectory are exactly h    *)
(* apart (t_{k+1} - t_k == h), at every point of the loop, the last record *)
(* included.                                                               *)
(***************************************************************************)
C6_Original ==
    \A k \in 1..(Len(pontos) - 1) :
        Menos(inst(pontos, k + 1), inst(pontos, k)) = Inteiro(rk.h)

(***************************************************************************)
(* C6, amended.  At every point of the loop the instant of each record     *)
(* after record 0 is the float sum t_k + h of the instant before it, the   *)
(* last record included; the two are exactly h apart whenever t_k + h is   *)
(* a double.                                                               *)
(***************************************************************************)
C6_Espacamento ==
    \A k \in 1..(Len(pontos) - 1) :
        /\ inst(pontos, k + 1) = Soma(inst(pontos, k), Inteiro(rk.h))
        /\ EhDuplo(SomaExata(inst(pontos, k), Inteiro(rk.h))) =>
              Menos(inst(pontos, k + 1), inst(pontos, k)) = Inteiro(rk.h)

\* a returned trajectory whose last record lies beyond tf and in which an
\* addition t_k + h was rounded
C6_Witness ==
    /\ pc = "retornou" /\ rk.h > 0
    /\ Len(pontos) >= 3
    /\ Maior(inst(pontos, Len(pontos)), tf)
    /\ \E k \in 1..(Len(pontos) - 1) :
          ~EhDuplo(SomaExata(inst(pontos, k), Inteiro(rk.h)))

(***************************************************************************)
(* C7.  The trajectory is append-only: it starts as the single record      *)
(* (t0, y0), an iteration appends one record and keeps the earlier ones,   *)
(* and record 0 is (t0, y0) in every state.                                *)
(***************************************************************************)
C7_SoAcrescenta ==
    /\ [](pontos # <<>> => pontos[1] = ponto(rk.t0, rk.y0))
    /\ [][ /\ (pc' = "laco" /\ pc # "laco") => pontos' = <<ponto(rk.t0, rk.y0)>>
           /\ (pc = "laco" /\ pc' # "erro") =>
                 /\ Len(pontos') = Len(pontos) + 1
                 /\ SubSeq(pontos', 1, Len(pontos)) = pontos ]_vars

\* several records appended and the current state no longer y0
C7_Witness ==
    /\ Len(pontos) >= 3
    /\ yk # rk.y0
    /\ pontos[1] = ponto(rk.t0, rk.y0)

(***************************************************************************)
(* C8.  Two calls of aplicar with the same tf on one instance return the   *)
(* same trajectory, and no step of a call changes the instance.            *)
(***************************************************************************)
C8_Determinismo ==
    /\ [](Len(retornos) >= 2 => retornos[2] = retornos[1])
    /\ [][rk' = rk]_vars

\* the second call returned a trajectory of several steps
C8_Witness ==
    /\ Len(retornos) = 2
    /\ Len(retornos[2]) >= 3
    /\ retornos[2][3] # retornos[2][1]

(***************************************************************************)
(* C9.  Every record after the first is the step taken from the record     *)
(* before it: instant + h, and each component y[i] + h * phi(f[i], t, y)   *)
(* from that one snapshot; the snapshot (the previous record, and y0 of    *)
(* the instance) is left as it was.                                        *)
(***************************************************************************)
C9_MesmoInstantaneo ==
    /\ \A k \in 1..(Len(pontos) - 1) : pontos[k + 1] = PassoDe(rk, pontos, k)
    /\ pontos # <<>> => /\ estado(pontos, 1) = rk.y0
                        /\ pontos[Len(pontos)] = ponto(tk, yk)

\* two coupled equations, two steps taken
C9_Witness ==
    /\ rk.n = 2 /\ rk.R >= 2 /\ ~Malformada(rk)
    /\ Len(pontos) >= 3
    /\ estado(pontos, 3)[1] # estado(pontos, 2)[1]
    /\ estado(pontos, 3)[2] # estado(pontos, 2)[2]

(***************************************************************************)
(* C10.  As claimed: the shifted state of stage r sums the stages          *)
(* 0..r-2 only, stages 0 and 1 evaluate f at y itself (stage 0 is          *)
(* f(t, y)), and changing a[r][r-1] in the tableau given to the            *)
(* constructor changes the state argument of no stage.                     *)
(***************************************************************************)
Coefs == -1..2

\* the instance built from the same arguments with a[r][r-1] set to v
ComCoef(self, r, v) ==
    RK(self.f, self.t0, self.y0, self.h, self.R,
       [self.a EXCEPT ![r + 1][r] = v], self.b)

SomaAteRMenos2 ==
    (pc = "laco" /\ ~Malformada(rk)) =>
        \A i \in 1..rk.n : \A r \in 0..(rk.R - 1) :
            /\ termos_y(rk, rk.f[i], tk, yk, r)
                  = Deslocado(rk, rk.f[i], tk, yk, r, r - 1)
            /\ r <= 1 => termos_y(rk, rk.f[i], tk, yk, r) = yk
            /\ r = 0 => kappa(rk, rk.f[i], tk, yk, r) = Avalia(rk.f[i], tk, yk)

C10_Original ==
    /\ SomaAteRMenos2
    /\ (pc = "laco" /\ ~Malformada(rk)) =>
          \A i \in 1..rk.n : \A r \in 0..(rk.R - 1) :
          \A r1 \in 1..(rk.R - 1) : \A v \in Coefs :
              termos_y(ComCoef(rk, r1, v), rk.f[i], tk, yk, r)
                  = termos_y(rk, rk.f[i], tk, yk, r)

(***************************************************************************)
(* C10, amended.  The shifted state of stage r sums the stages 0..r-2      *)
(* only, stages 0 and 1 evaluate f at y itself (stage 0 is f(t, y)), and   *)
(* a[r][r-1] is never a coefficient of a shifted state: with the           *)
(* abscissas c left as they are, changing it changes the state argument    *)
(* of no stage.                                                            *)
(***************************************************************************)
C10_SomaCurta ==
    /\ SomaAteRMenos2
    /\ (pc = "laco" /\ ~Malformada(rk)) =>
          \A i \in 1..rk.n : \A r \in 0..(rk.R - 1) :
          \A r1 \in 1..(rk.R - 1) : \A v \in Coefs :
              termos_y([rk EXCEPT !.a[r1 + 1][r1] = v], rk.f[i], tk, yk, r)
                  = termos_y(rk, rk.f[i], tk, yk, r)

\* a four-stage method whose last stage is shifted through stage 1
C10_Witness ==
    /\ pc = "laco" /\ ~Malformada(rk)
    /\ rk.R = 4
    /\ \E i \in 1..rk.n :
          /\ termos_y(rk, rk.f[i], tk, yk, 3) # yk
          /\ termos_y(rk, rk.f[i], tk, yk, 1) = yk
          /\ rk.a[2][1] # 0

=============================================================================
